---------------------------- MODULE Spec2Model ----------------------------
(***************************************************************************)
(* Model of Server.py: a sequential HTTP/1.1 static file server.           *)
(*                                                                         *)
(* A Python str is modelled as a sequence of one-character strings, a      *)
(* Python bytes object as a sequence of integers 0..255.  str.encode() and *)
(* bytes.decode() convert between the two through the ASCII table.         *)
(* File system paths follow POSIX rules (posixpath.join, kernel lookup).   *)
(***************************************************************************)
EXTENDS Integers, Sequences, FiniteSets, TLC

-----------------------------------------------------------------------------
(* Bounds of the model *)

\* number of connections the accept loop takes in one run
MaxConns ==
    2

\* number of times the environment removes a file of the tree in one run
MaxUnlinks ==
    1

\* The maximum size of the accumulated request that a bounded framer would
\* enforce.  Server.py has no such constant; the value stands for any fixed
\* maximum, and every well-formed request of the model fits in it.
MaxRequestSize ==
    40

-----------------------------------------------------------------------------
(* Configuration constants, Server.py lines 14-46 *)

\* HTTP_200 = 'HTTP/1.1 200 OK\r\n'
HTTP_200 ==
    <<"H", "T", "T", "P", "/", "1", ".", "1", " ", "2", "0", "0", " ", "O", "K", "\r", "\n">>

\* HTTP_400 = 'HTTP/1.1 400 BAD REQUEST\r\n'
HTTP_400 ==
    <<"H", "T", "T", "P", "/", "1", ".", "1", " ", "4", "0", "0", " ", "B", "A", "D", " ", "R", "E", "Q", "U", "E", "S", "T", "\r", "\n">>

\* HTTP_403 = 'HTTP/1.1 403 FORBIDDEN\r\n\r\n'
HTTP_403 ==
    <<"H", "T", "T", "P", "/", "1", ".", "1", " ", "4", "0", "3", " ", "F", "O", "R", "B", "I", "D", "D", "E", "N", "\r", "\n", "\r", "\n">>

\* HTTP_404 = 'HTTP/1.1 404 NOT FOUND\r\n\r\n'
HTTP_404 ==
    <<"H", "T", "T", "P", "/", "1", ".", "1", " ", "4", "0", "4", " ", "N", "O", "T", " ", "F", "O", "U", "N", "D", "\r", "\n", "\r", "\n">>

\* HTTP_500 = 'HTTP/1.1 500 INTERNAL SERVER ERROR\r\n\r\n'
HTTP_500 ==
    <<"H", "T", "T", "P", "/", "1", ".", "1", " ", "5", "0", "0", " ", "I", "N", "T", "E", "R", "N", "A", "L", " ", "S", "E", "R", "V", "E", "R", " ", "E", "R", "R", "O", "R", "\r", "\n", "\r", "\n">>

\* WEBROOT = 'web_root'
WEBROOT ==
    <<"w", "e", "b", "_", "r", "o", "o", "t">>

\* DEFAULT_URL = 'index.html'
DEFAULT_URL ==
    <<"i", "n", "d", "e", "x", ".", "h", "t", "m", "l">>

\* REDIRECTION_DICTIONARY = {'/moved': '/'}, as a set of <<key, value>>
REDIRECTION_DICTIONARY ==
    { << <<"/", "m", "o", "v", "e", "d">>, <<"/">> >> }

\* CONTENT_TYPES, as a set of <<key, value>>
CONTENT_TYPES ==
    { << <<"h", "t", "m", "l">>, <<"t", "e", "x", "t", "/", "h", "t", "m", "l", ";", "c", "h", "a", "r", "s", "e", "t", "=", "u", "t", "f", "-", "8">> >>,
      << <<"j", "p", "g">>, <<"i", "m", "a", "g", "e", "/", "j", "p", "e", "g">> >>,
      << <<"c", "s", "s">>, <<"t", "e", "x", "t", "/", "c", "s", "s">> >>,
      << <<"j", "s">>, <<"t", "e", "x", "t", "/", "j", "a", "v", "a", "s", "c", "r", "i", "p", "t", ";", " ", "c", "h", "a", "r", "s", "e", "t", "=", "U", "T", "F", "-", "8">> >>,
      << <<"t", "x", "t">>, <<"t", "e", "x", "t", "/", "p", "l", "a", "i", "n">> >>,
      << <<"i", "c", "o">>, <<"i", "m", "a", "g", "e", "/", "x", "-", "i", "c", "o", "n">> >>,
      << <<"g", "i", "f">>, <<"i", "m", "a", "g", "e", "/", "j", "p", "e", "g">> >>,
      << <<"p", "n", "g">>, <<"i", "m", "a", "g", "e", "/", "p", "n", "g">> >> }

-----------------------------------------------------------------------------
(* Python built-ins used by the server *)

\* The value None.  It is a sequence so that it can be compared with a str,
\* and it equals no str because its element is not a single character.
None ==
    << "<None>" >>

\* `key in d` for a dict d
DictHas(d, key) ==
    \E kv \in d : kv[1] = key

\* d[key], for a key of d
DictAt(d, key) ==
    (CHOOSE kv \in d : kv[1] = key)[2]

\* d.get(key): the value, or None when the key is absent
DictGet(d, key) ==
    IF DictHas(d, key) THEN DictAt(d, key) ELSE None

\* The characters of code 0..127 in code order (entry c + 1 is chr(c)).
\* Control characters that TLA+ strings cannot spell carry their ASCII name.
AsciiTable ==
    << "NUL", "SOH", "STX", "ETX", "EOT", "ENQ", "ACK", "BEL",
       "BS", "\t", "\n", "VT", "\f", "\r", "SO", "SI",
       "DLE", "DC1", "DC2", "DC3", "DC4", "NAK", "SYN", "ETB",
       "CAN", "EM", "SUB", "ESC", "FS", "GS", "RS", "US",
       " ", "!", "\"", "#", "$", "%", "&", "'", "(", ")", "*", "+", ",", "-", ".", "/",
       "0", "1", "2", "3", "4", "5", "6", "7", "8", "9", ":", ";", "<", "=", ">", "?",
       "@", "A", "B", "C", "D", "E", "F", "G", "H", "I", "J", "K", "L", "M", "N", "O",
       "P", "Q", "R", "S", "T", "U", "V", "W", "X", "Y", "Z", "[", "\\", "]", "^", "_",
       "GRAVE", "a", "b", "c", "d", "e", "f", "g", "h", "i", "j", "k", "l", "m", "n", "o",
       "p", "q", "r", "s", "t", "u", "v", "w", "x", "y", "z", "{", "|", "}", "~", "DEL" >>

\* ord(c) for an ASCII character c
Ord(c) ==
    (CHOOSE i \in 1..128 : AsciiTable[i] = c) - 1

\* str.encode() (UTF-8) of a str whose characters are all ASCII, which is
\* the case of every header the server builds: one byte per character.
Encode(s) ==
    [i \in 1..Len(s) |-> Ord(s[i])]

\* Whether bytes.decode() (UTF-8, strict) succeeds on the result of one
\* recv(1): the empty bytes object decodes to '', a byte below 0x80 to one
\* character; any other single byte raises UnicodeDecodeError.
DecodeOk(b) ==
    \A i \in 1..Len(b) : b[i] < 128

\* bytes.decode() where it succeeds
Decode(b) ==
    [i \in 1..Len(b) |-> AsciiTable[b[i] + 1]]

\* s.startswith(prefix)
StartsWith(s, prefix) ==
    /\ Len(prefix) <= Len(s)
    /\ SubSeq(s, 1, Len(prefix)) = prefix

\* s.endswith(suffix)
EndsWith(s, suffix) ==
    /\ Len(suffix) <= Len(s)
    /\ SubSeq(s, Len(s) - Len(suffix) + 1, Len(s)) = suffix

\* s.lstrip(chars) for a one-character argument: every leading occurrence
\* of the character is removed
RECURSIVE LStrip(_, _)
LStrip(s, c) ==
    IF s # << >> /\ Head(s) = c THEN LStrip(Tail(s), c) ELSE s

\* s.split(sep) for a non-empty separator: the pieces of s between the
\* non-overlapping occurrences of sep, scanned left to right; always at
\* least one piece, and empty pieces are kept
RECURSIVE SplitFrom(_, _, _)
SplitFrom(s, sep, piece) ==
    IF s = << >> THEN << piece >>
    ELSE IF StartsWith(s, sep)
         THEN << piece >> \o SplitFrom(SubSeq(s, Len(sep) + 1, Len(s)), sep, << >>)
         ELSE SplitFrom(Tail(s), sep, Append(piece, Head(s)))

\* s.split(sep)
Split(s, sep) ==
    SplitFrom(s, sep, << >>)

\* The decimal digits of a natural number, as str(n) / f'{n}' prints it
RECURSIVE Str(_)
Str(n) ==
    IF n < 10 THEN << AsciiTable[49 + n] >>
    ELSE Str(n \div 10) \o << AsciiTable[49 + (n % 10)] >>

\* f'{x}' for x a str or None
Format(x) ==
    IF x = None THEN <<"N", "o", "n", "e">> ELSE x

-----------------------------------------------------------------------------
(* The file system the server runs on.  A node is named by the sequence of *)
(* directory entry names that leads to it from the server's working        *)
(* directory, which is the root of the modelled tree.                      *)

\* lookup result for a path that names no node (ENOENT, ENOTDIR)
NoNode ==
    << << "<no node>" >> >>

\* The node reached from directory node cur by the path components comps,
\* as the kernel walks them: '' and '.' stay, '..' goes to the parent (the
\* root is its own parent), a name must be an entry of the current
\* directory, and every component is looked up in a directory.
RECURSIVE Walk(_, _, _)
Walk(tree, cur, comps) ==
    IF comps = << >> THEN cur
    ELSE IF tree[cur].kind # "dir" THEN NoNode
    ELSE LET c == Head(comps) IN
         IF c = << >> \/ c = <<".">> THEN Walk(tree, cur, Tail(comps))
         ELSE IF c = <<".", ".">>
              THEN Walk(tree, IF cur = << >> THEN cur ELSE SubSeq(cur, 1, Len(cur) - 1),
                        Tail(comps))
              ELSE IF Append(cur, c) \in DOMAIN tree
                   THEN Walk(tree, Append(cur, c), Tail(comps))
                   ELSE NoNode

\* The node a path string names (stat / open path resolution): the empty
\* path names nothing, and a path ending in '/' names only a directory.
Lookup(tree, path) ==
    IF path = << >> THEN NoNode
    ELSE LET n == Walk(tree, << >>, Split(path, <<"/">>)) IN
         IF n # NoNode /\ EndsWith(path, <<"/">>) /\ tree[n].kind # "dir"
         THEN NoNode
         ELSE n

\* os.path.join(a, b) of posixpath
PathJoin(a, b) ==
    IF StartsWith(b, <<"/">>) THEN b
    ELSE IF a = << >> \/ EndsWith(a, <<"/">>) THEN a \o b
    ELSE a \o <<"/">> \o b

\* os.path.isfile(path): the path names an existing regular file
IsFile(tree, path) ==
    LET n == Lookup(tree, path) IN
    n # NoNode /\ tree[n].kind = "file"

\* Whether open(path, 'rb') followed by read() succeeds: the path names a
\* regular file the process may read.  Otherwise an OSError is raised.
CanRead(tree, path) ==
    LET n == Lookup(tree, path) IN
    n # NoNode /\ tree[n].kind = "file" /\ tree[n].readable

\* get_file_data(file_name): the bytes of WEBROOT/file_name
get_file_data(tree, file_name) ==
    tree[Lookup(tree, PathJoin(WEBROOT, file_name))].data

\* A directory node
Dir ==
    [kind |-> "dir", data |-> << >>, readable |-> TRUE]

\* A readable regular file holding the bytes d
File(d) ==
    [kind |-> "file", data |-> d, readable |-> TRUE]

\* Names of the files the tree may or may not hold at start
OptionalFiles ==
    { <<"f", "o", "r", "b", "i", "d", "d", "e", "n">>, <<"e", "r", "r", "o", "r">>, <<"m", "o", "v", "e", "d">> }

\* The tree at start: the working directory holds secret.txt and the
\* document root web_root; opt is the set of optional files present in the
\* document root.
\*   secret.txt             'TOP'
\*   web_root/index.html    '<h1>Hi</h1>'  (11 bytes)
\*   web_root/data.bin      four bytes, two of them above 0x7f
\*   web_root/locked.txt    not readable by the server
\*   web_root/img/a.gif     'GIF'
\*   web_root/<o>           'x', for o in opt
InitialTree(opt) ==
    LET base ==
          { << << >>, Dir >>,
            << << <<"s", "e", "c", "r", "e", "t", ".", "t", "x", "t">> >>, File(Encode(<<"T", "O", "P">>)) >>,
            << << WEBROOT >>, Dir >>,
            << << WEBROOT, <<"i", "n", "d", "e", "x", ".", "h", "t", "m", "l">> >>, File(Encode(<<"<", "h", "1", ">", "H", "i", "<", "/", "h", "1", ">">>)) >>,
            << << WEBROOT, <<"d", "a", "t", "a", ".", "b", "i", "n">> >>, File(<< 0, 255, 137, 80 >>) >>,
            << << WEBROOT, <<"l", "o", "c", "k", "e", "d", ".", "t", "x", "t">> >>,
               [kind |-> "file", data |-> Encode(<<"n", "o">>), readable |-> FALSE] >>,
            << << WEBROOT, <<"i", "m", "g">> >>, Dir >>,
            << << WEBROOT, <<"i", "m", "g">>, <<"a", ".", "g", "i", "f">> >>, File(Encode(<<"G", "I", "F">>)) >> }
        all == base \cup { << << WEBROOT, o >>, File(Encode(<<"x">>)) >> : o \in opt }
    IN [n \in { e[1] : e \in all } |-> (CHOOSE e \in all : e[1] = n)[2]]

-----------------------------------------------------------------------------
(* The pure parts of the request handling *)

\* validate_http_request comparing the version field for equality instead
\* of testing its prefix
validate_http_request_ExactVersion(request) ==
    LET parts == Split(request, <<" ">>) IN
    IF Len(parts) < 3 THEN << FALSE, << >> >>
    ELSE IF parts[1] # <<"G", "E", "T">> THEN << FALSE, << >> >>
    ELSE IF parts[3] # <<"H", "T", "T", "P", "/", "1", ".", "1">> THEN << FALSE, << >> >>
    ELSE << TRUE, parts[2] >>

\* validate_http_request returning the target without its query string
validate_http_request_NoQuery(request) ==
    LET parts == Split(request, <<" ">>) IN
    IF Len(parts) < 3 THEN << FALSE, << >> >>
    ELSE IF parts[1] # <<"G", "E", "T">> THEN << FALSE, << >> >>
    ELSE IF ~StartsWith(parts[3], <<"H", "T", "T", "P", "/", "1", ".", "1">>) THEN << FALSE, << >> >>
    ELSE << TRUE, Split(parts[2], <<"?">>)[1] >>

\* validate_http_request(request): <<valid, resource>>
validate_http_request(request) ==
    LET parts == Split(request, <<" ">>) IN
    IF Len(parts) < 3 THEN << FALSE, << >> >>
    ELSE IF parts[1] # <<"G", "E", "T">> THEN << FALSE, << >> >>
    ELSE IF ~StartsWith(parts[3], <<"H", "T", "T", "P", "/", "1", ".", "1">>) THEN << FALSE, << >> >>
    ELSE << TRUE, parts[2] >>

\* The candidate file name with a single leading '/' removed
\* (resource[1:] instead of resource.lstrip('/'))
Uri_StripOne(resource) ==
    IF resource = <<"/">> THEN DEFAULT_URL
    ELSE IF StartsWith(resource, <<"/">>) THEN Tail(resource) ELSE resource

\* The candidate file name uri of handle_client_request, lines 71-78
Uri(resource) ==
    IF resource = <<"/">> THEN DEFAULT_URL ELSE LStrip(resource, "/")

\* The 302 header without the blank line that ends the headers
RedirectHeader_OneCrlf(new_location) ==
    <<"H", "T", "T", "P", "/", "1", ".", "1", " ", "3", "0", "2", " ", "M", "O", "V", "E", "D", " ", "T", "E", "M", "P", "O", "R", "A", "R", "I", "L", "Y", "\r", "\n", "L", "o", "c", "a", "t", "i", "o", "n", ":", " ">> \o new_location \o <<"\r", "\n">>

\* The 302 header of handle_client_request, line 97
RedirectHeader(new_location) ==
    <<"H", "T", "T", "P", "/", "1", ".", "1", " ", "3", "0", "2", " ", "M", "O", "V", "E", "D", " ", "T", "E", "M", "P", "O", "R", "A", "R", "I", "L", "Y", "\r", "\n", "L", "o", "c", "a", "t", "i", "o", "n", ":", " ">> \o new_location \o <<"\r", "\n", "\r", "\n">>

\* The file extension of handle_client_request, line 115: uri.split('.')[-1]
FileExtension(uri) ==
    LET p == Split(uri, <<".">>) IN p[Len(p)]

\* The 200 header with Content-Length put before Content-Type
OkHeader_LengthFirst(content_type, data) ==
    HTTP_200
      \o <<"C", "o", "n", "t", "e", "n", "t", "-", "L", "e", "n", "g", "t", "h", ":", " ">> \o Str(Len(data)) \o <<"\r", "\n">>
      \o <<"C", "o", "n", "t", "e", "n", "t", "-", "T", "y", "p", "e", ":", " ">> \o Format(content_type) \o <<"\r", "\n">>
      \o <<"\r", "\n">>

\* The 200 header of handle_client_request, lines 131-134
OkHeader(content_type, data) ==
    HTTP_200
      \o <<"C", "o", "n", "t", "e", "n", "t", "-", "T", "y", "p", "e", ":", " ">> \o Format(content_type) \o <<"\r", "\n">>
      \o <<"C", "o", "n", "t", "e", "n", "t", "-", "L", "e", "n", "g", "t", "h", ":", " ">> \o Str(Len(data)) \o <<"\r", "\n">>
      \o <<"\r", "\n">>

\* The 200 response of handle_client_request, line 137
OkResponse(uri, data) ==
    Encode(OkHeader(DictGet(CONTENT_TYPES, FileExtension(uri)), data)) \o data

-----------------------------------------------------------------------------
(* What the peers send *)

\* The request targets the peers ask for
Targets ==
    { <<"/">>, <<"/", "i", "n", "d", "e", "x", ".", "h", "t", "m", "l">>, <<"/", "/", "i", "n", "d", "e", "x", ".", "h", "t", "m", "l">>, <<"i", "n", "d", "e", "x", ".", "h", "t", "m", "l">>,
      <<"/", "i", "n", "d", "e", "x", ".", "h", "t", "m", "l", "/">>, <<"/", "m", "i", "s", "s", "i", "n", "g", ".", "h", "t", "m", "l">>, <<"/", "d", "a", "t", "a", ".", "b", "i", "n">>, <<"/", "l", "o", "c", "k", "e", "d", ".", "t", "x", "t">>,
      <<"/", "i", "m", "g">>, <<"/", "i", "m", "g", "/", "a", ".", "g", "i", "f">>, <<"/", "i", "m", "g", "/", ".", ".", "/", "i", "n", "d", "e", "x", ".", "h", "t", "m", "l">>,
      <<"/", ".", ".", "/", "s", "e", "c", "r", "e", "t", ".", "t", "x", "t">>, <<"/", "i", "m", "g", "/", ".", ".", "/", ".", ".", "/", "s", "e", "c", "r", "e", "t", ".", "t", "x", "t">>,
      <<"/", "f", "o", "r", "b", "i", "d", "d", "e", "n">>, <<"f", "o", "r", "b", "i", "d", "d", "e", "n">>, <<"/", "/", "f", "o", "r", "b", "i", "d", "d", "e", "n">>, <<"/", "e", "r", "r", "o", "r">>, <<"/", "/", "e", "r", "r", "o", "r">>,
      <<"/", "m", "o", "v", "e", "d">>, <<"/", "m", "o", "v", "e", "d", "/">>, <<"/", "/", "m", "o", "v", "e", "d">>,
      <<"/", "a", "%", "2", "0", "b", "?", "x", "=", "1">>, <<>> }

\* The request line 'GET <target> HTTP/1.1'
RequestLine(target) ==
    <<"G", "E", "T", " ">> \o target \o <<" ", "H", "T", "T", "P", "/", "1", ".", "1">>

\* Request lines that are not of that form
OtherLines ==
    { <<"P", "O", "S", "T", " ", "/", " ", "H", "T", "T", "P", "/", "1", ".", "1">>, <<"g", "e", "t", " ", "/", " ", "H", "T", "T", "P", "/", "1", ".", "1">>, <<"G", "e", "t", " ", "/", " ", "H", "T", "T", "P", "/", "1", ".", "1">>,
      <<"G", "E", "T", " ", "/">>, <<"G", "E", "T">>, <<>>, <<"G", "E", "T", " ", "/", " ", "H", "T", "T", "P", "/", "1", ".", "0">>, <<"G", "E", "T", " ", "/", " ", "h", "t", "t", "p", "/", "1", ".", "1">>,
      <<"G", "E", "T", " ", "/", " ", "H", "T", "T", "P", "/", "1", ".", "1", "x", "y", "z">>, <<"G", "E", "T", " ", "/", "m", "o", "v", "e", "d", " ", "H", "T", "T", "P", "/", "1", ".", "1", "0">>,
      <<"G", "E", "T", " ", " ", "/", " ", "H", "T", "T", "P", "/", "1", ".", "1">>, <<"G", "E", "T", " ", "/", "a", " ", "b", " ", "H", "T", "T", "P", "/", "1", ".", "1">>, <<" ", "G", "E", "T", " ", "/", " ", "H", "T", "T", "P", "/", "1", ".", "1">>,
      <<"G", "E", "T", " ", "/", "i", "n", "d", "e", "x", ".", "h", "t", "m", "l", " ", "H", "T", "T", "P", "/", "1", ".", "1", " ", "e", "x", "t", "r", "a">> }

\* The header terminator '\r\n\r\n'
Terminator ==
    <<"\r", "\n", "\r", "\n">>

\* The stream of a peer that sends one byte more than MaxRequestSize and
\* no terminator: 'AAA...'
Flood ==
    [i \in 1..(MaxRequestSize + 1) |-> 65]

\* The byte streams a peer may deliver on one connection: a request line
\* followed by the terminator, and streams with header lines, with bytes
\* after the terminator, without terminator, with a byte above 0x7f, and
\* the flood.
Streams ==
    { Encode(l \o Terminator) : l \in { RequestLine(t) : t \in Targets } \cup OtherLines }
      \cup { Encode(<<"G", "E", "T", " ", "/", "i", "m", "g", "/", "a", ".", "g", "i", "f", " ", "H", "T", "T", "P", "/", "1", ".", "1", "\r", "\n", "H", "o", "s", "t", ":", " ", "x", "\r", "\n", "\r", "\n">>),
             Encode(<<"G", "E", "T", " ", "/", " ", "H", "T", "T", "P", "/", "1", ".", "1", "\r", "\n", "\r", "\n", "G", "E", "T", " ", "/", "e", "r", "r", "o", "r", " ", "H", "T", "T", "P", "/", "1", ".", "1", "\r", "\n", "\r", "\n">>),
             Encode(<<"G", "E", "T", " ", "/", " ", "H", "T", "T", "P", "/", "1", ".", "1", "\r", "\n">>),
             Encode(<<"G", "E", "T", " ", "/", " ", "H", "T">>),
             << >>,
             Flood,
             Encode(<<"G", "E", "T", " ", "/">>) \o << 200 >> \o Encode(<<" ", "H", "T", "T", "P", "/", "1", ".", "1", "\r", "\n", "\r", "\n">>) }

\* What the peer does once it has delivered its stream: it closes its side,
\* it stays silent, or it resets the connection.
PeerEnds ==
    { "close", "silent", "reset" }

-----------------------------------------------------------------------------
(* The server *)

VARIABLES
    pc,              \* where main / handle_client / handle_client_request stand
    conns,           \* number of connections accepted so far
    client_socket,   \* "none", "open" or "closed": the accepted socket
    tree,            \* the file system
    unlinks,         \* number of files the environment has removed
    stream,          \* bytes the peer delivers that recv has not returned yet
    arrived,         \* how many of them are in the socket's receive buffer
    peerEnd,         \* what the peer does after its stream
    eof,             \* recv has returned b'' on this connection
    client_request,  \* handle_client: the accumulated request text
    first_line,      \* handle_client: the first line of the request
    resource,        \* the validated request target
    uri,             \* handle_client_request: the candidate file name
    sendLog,         \* the arguments of the send calls on this connection
    fsLog,           \* the file system calls made for this connection
    outcome          \* how the handling of this connection ended

vars ==
    << pc, conns, client_socket, tree, unlinks, stream, arrived, peerEnd, eof,
       client_request, first_line, resource, uri, sendLog, fsLog, outcome >>

\* The variables of one connection other than pc, sendLog and outcome
connVars ==
    << stream, arrived, peerEnd, eof, client_request, first_line, resource, uri, fsLog >>

\* State at start: main has bound the listening socket and is about to
\* call accept for the first time (line 230).
Init ==
    /\ pc = "accept"
    /\ conns = 0
    /\ client_socket = "none"
    /\ tree \in { InitialTree(opt) : opt \in SUBSET OptionalFiles }
    /\ unlinks = 0
    /\ stream = << >>
    /\ arrived = 0
    /\ peerEnd = "silent"
    /\ eof = FALSE
    /\ client_request = << >>
    /\ first_line = << >>
    /\ resource = << >>
    /\ uri = << >>
    /\ sendLog = << >>
    /\ fsLog = << >>
    /\ outcome = "none"

\* main, lines 230-234: accept a connection, set its timeout, enter
\* handle_client with an empty request buffer.  The peer's behaviour on the
\* connection is fixed here; its bytes are in the receive buffer whenever
\* recv asks for them.
Accept ==
    /\ pc = "accept"
    /\ conns < MaxConns
    /\ conns' = conns + 1
    /\ client_socket' = "open"
    /\ \E s \in Streams, e \in PeerEnds :
         stream' = s /\ arrived' = Len(s) /\ peerEnd' = e
    /\ eof' = FALSE
    /\ client_request' = << >>
    /\ first_line' = << >>
    /\ resource' = << >>
    /\ uri' = << >>
    /\ sendLog' = << >>
    /\ fsLog' = << >>
    /\ outcome' = "none"
    /\ pc' = "recv"
    /\ UNCHANGED << tree, unlinks >>

\* main, lines 230 and 240-244: accept itself raises a socket.error (a
\* failure of the listening socket, no connection is open); the loop is
\* left, the listening socket is closed and main ends.
AcceptFail ==
    /\ pc = "accept"
    /\ pc' = "stopped"
    /\ UNCHANGED << conns, client_socket, tree, unlinks, connVars, sendLog, outcome >>

\* client_socket.send(data): the call is made with data, which sendLog
\* records (how many of the bytes the socket transmits is not modelled); it
\* returns, or it raises socket.timeout or another socket.error, which the
\* except clauses of handle_client (lines 211-215) catch.  In every case
\* handle_client then returns.
Send(data) ==
    /\ sendLog' = Append(sendLog, data)
    /\ outcome' \in { "sent", "timeout", "error" }
    /\ pc' = "return"

\* RecvByte decoding with errors='replace': a byte that does not decode
\* becomes the replacement character and the loop goes on
RecvByte_Replace ==
    /\ pc = "recv"
    /\ ~EndsWith(client_request, Terminator)
    /\ stream # << >>
    /\ arrived > 0
    /\ LET char == << Head(stream) >> IN
       /\ stream' = Tail(stream)
       /\ arrived' = arrived - 1
       /\ client_request' = client_request
                              \o (IF DecodeOk(char) THEN Decode(char) ELSE << "U+FFFD" >>)
       /\ UNCHANGED << pc, outcome >>
    /\ UNCHANGED << conns, client_socket, tree, unlinks, peerEnd, eof,
                    first_line, resource, uri, sendLog, fsLog >>

\* handle_client, lines 187-190, one iteration of the framing loop when
\* the receive buffer holds at least one byte: recv(1) returns the first
\* one, however many have arrived; decode() turns it into a character or
\* raises, and the exception ends handle_client through line 213.
RecvByte ==
    /\ pc = "recv"
    /\ ~EndsWith(client_request, Terminator)
    /\ stream # << >>
    /\ arrived > 0
    /\ LET char == << Head(stream) >> IN
       /\ stream' = Tail(stream)
       /\ arrived' = arrived - 1
       /\ IF DecodeOk(char)
          THEN /\ client_request' = client_request \o Decode(char)
               /\ UNCHANGED << pc, outcome >>
          ELSE /\ pc' = "return"
               /\ outcome' = "error"
               /\ UNCHANGED client_request
    /\ UNCHANGED << conns, client_socket, tree, unlinks, peerEnd, eof,
                    first_line, resource, uri, sendLog, fsLog >>

\* handle_client, lines 187-190, one iteration of the framing loop when
\* the peer has closed its side: recv(1) returns b'' at once, which decodes
\* to '' and is appended; the loop condition is evaluated again.
RecvEof ==
    /\ pc = "recv"
    /\ ~EndsWith(client_request, Terminator)
    /\ stream = << >>
    /\ peerEnd = "close"
    /\ client_request' = client_request \o Decode(<< >>)
    /\ eof' = TRUE
    /\ UNCHANGED << pc, conns, client_socket, tree, unlinks, stream, arrived, peerEnd,
                    first_line, resource, uri, sendLog, fsLog, outcome >>

\* RecvFail without the except clauses of handle_client: the exception of
\* recv leaves handle_client and, caught outside the loop, ends main
RecvFail_Propagates ==
    /\ pc = "recv"
    /\ ~EndsWith(client_request, Terminator)
    /\ stream = << >>
    /\ peerEnd \in { "silent", "reset" }
    /\ outcome' = IF peerEnd = "silent" THEN "timeout" ELSE "error"
    /\ pc' = "stopped"
    /\ UNCHANGED << conns, client_socket, tree, unlinks, stream, arrived, peerEnd, eof,
                    client_request, first_line, resource, uri, sendLog, fsLog >>

\* RecvFail with an answer to the peer: the except clause sends HTTP_400
\* before handle_client returns
RecvFail_Answers ==
    /\ pc = "recv"
    /\ ~EndsWith(client_request, Terminator)
    /\ stream = << >>
    /\ peerEnd \in { "silent", "reset" }
    /\ outcome' = IF peerEnd = "silent" THEN "timeout" ELSE "error"
    /\ sendLog' = Append(sendLog, Encode(HTTP_400))
    /\ pc' = "return"
    /\ UNCHANGED << conns, client_socket, tree, unlinks, stream, arrived, peerEnd, eof,
                    client_request, first_line, resource, uri, fsLog >>

\* handle_client, lines 189 and 211-215: the peer delivers nothing more;
\* recv raises socket.timeout when the socket's timeout expires, or a
\* socket.error when the peer resets; the except clause ends handle_client.
RecvFail ==
    /\ pc = "recv"
    /\ ~EndsWith(client_request, Terminator)
    /\ stream = << >>
    /\ peerEnd \in { "silent", "reset" }
    /\ outcome' = IF peerEnd = "silent" THEN "timeout" ELSE "error"
    /\ pc' = "return"
    /\ UNCHANGED << conns, client_socket, tree, unlinks, stream, arrived, peerEnd, eof,
                    client_request, first_line, resource, uri, sendLog, fsLog >>

\* handle_client, lines 187 and 192-197: the buffer ends with the
\* terminator, the loop ends and the first line is extracted.
Framed ==
    /\ pc = "recv"
    /\ EndsWith(client_request, Terminator)
    /\ first_line' = Split(client_request, <<"\r", "\n">>)[1]
    /\ pc' = "parse"
    /\ UNCHANGED << conns, client_socket, tree, unlinks, stream, arrived, peerEnd, eof,
                    client_request, resource, uri, sendLog, fsLog, outcome >>

\* handle_client, lines 199-209: validate the first line; a valid request
\* goes to handle_client_request, an invalid one is answered with HTTP_400.
Validate ==
    /\ pc = "parse"
    /\ LET r == validate_http_request(first_line) IN
       /\ resource' = r[2]
       /\ IF r[1]
          THEN /\ pc' = "resolve"
               /\ UNCHANGED << sendLog, outcome >>
          ELSE Send(Encode(HTTP_400))
    /\ UNCHANGED << conns, client_socket, tree, unlinks, stream, arrived, peerEnd, eof,
                    client_request, first_line, uri, fsLog >>

\* Resolve without the return of line 85: after a 403 that was sent
\* without exception, the function goes on to the existence check
Resolve_FallThrough ==
    /\ pc = "resolve"
    /\ uri' = Uri(resource)
    /\ IF resource = <<"/", "f", "o", "r", "b", "i", "d", "d", "e", "n">>
       THEN /\ sendLog' = Append(sendLog, Encode(HTTP_403))
            /\ \/ outcome' \in { "timeout", "error" } /\ pc' = "return"
               \/ outcome' = outcome /\ pc' = "isfile"
       ELSE IF resource = <<"/", "e", "r", "r", "o", "r">> THEN Send(Encode(HTTP_500))
       ELSE IF DictHas(REDIRECTION_DICTIONARY, resource)
            THEN Send(Encode(RedirectHeader(DictAt(REDIRECTION_DICTIONARY, resource))))
            ELSE /\ pc' = "isfile"
                 /\ UNCHANGED << sendLog, outcome >>
    /\ UNCHANGED << conns, client_socket, tree, unlinks, stream, arrived, peerEnd, eof,
                    client_request, first_line, resource, fsLog >>

\* Resolve matching the forced status routes and the redirection table on
\* the stripped candidate name instead of the original target
Resolve_MatchOnUri ==
    /\ pc = "resolve"
    /\ uri' = Uri(resource)
    /\ IF Uri(resource) = <<"f", "o", "r", "b", "i", "d", "d", "e", "n">> THEN Send(Encode(HTTP_403))
       ELSE IF Uri(resource) = <<"e", "r", "r", "o", "r">> THEN Send(Encode(HTTP_500))
       ELSE IF DictHas(REDIRECTION_DICTIONARY, <<"/">> \o Uri(resource))
            THEN Send(Encode(RedirectHeader(DictAt(REDIRECTION_DICTIONARY, <<"/">> \o Uri(resource)))))
            ELSE /\ pc' = "isfile"
                 /\ UNCHANGED << sendLog, outcome >>
    /\ UNCHANGED << conns, client_socket, tree, unlinks, stream, arrived, peerEnd, eof,
                    client_request, first_line, resource, fsLog >>

\* Resolve with the existence check made before the forced status routes
\* and the redirection table are looked at
Resolve_FileFirst ==
    /\ pc = "resolve"
    /\ uri' = Uri(resource)
    /\ fsLog' = Append(fsLog, << "isfile", PathJoin(WEBROOT, Uri(resource)) >>)
    /\ IF IsFile(tree, PathJoin(WEBROOT, Uri(resource)))
       THEN /\ pc' = "read"
            /\ UNCHANGED << sendLog, outcome >>
       ELSE IF resource = <<"/", "f", "o", "r", "b", "i", "d", "d", "e", "n">> THEN Send(Encode(HTTP_403))
       ELSE IF resource = <<"/", "e", "r", "r", "o", "r">> THEN Send(Encode(HTTP_500))
       ELSE IF DictHas(REDIRECTION_DICTIONARY, resource)
            THEN Send(Encode(RedirectHeader(DictAt(REDIRECTION_DICTIONARY, resource))))
            ELSE Send(Encode(HTTP_404))
    /\ UNCHANGED << conns, client_socket, tree, unlinks, stream, arrived, peerEnd, eof,
                    client_request, first_line, resource >>

\* handle_client_request, lines 71-100: the candidate file name, then the
\* forced status routes and the redirection table.
Resolve ==
    /\ pc = "resolve"
    /\ uri' = Uri(resource)
    /\ IF resource = <<"/", "f", "o", "r", "b", "i", "d", "d", "e", "n">> THEN Send(Encode(HTTP_403))
       ELSE IF resource = <<"/", "e", "r", "r", "o", "r">> THEN Send(Encode(HTTP_500))
       ELSE IF DictHas(REDIRECTION_DICTIONARY, resource)
            THEN Send(Encode(RedirectHeader(DictAt(REDIRECTION_DICTIONARY, resource))))
            ELSE /\ pc' = "isfile"
                 /\ UNCHANGED << sendLog, outcome >>
    /\ UNCHANGED << conns, client_socket, tree, unlinks, stream, arrived, peerEnd, eof,
                    client_request, first_line, resource, fsLog >>

\* CheckFile testing os.path.exists instead of os.path.isfile: a directory
\* passes the check
CheckFile_Exists ==
    /\ pc = "isfile"
    /\ LET file_path == PathJoin(WEBROOT, uri) IN
       /\ fsLog' = Append(fsLog, << "isfile", file_path >>)
       /\ IF Lookup(tree, file_path) = NoNode
          THEN Send(Encode(HTTP_404))
          ELSE /\ pc' = "read"
               /\ UNCHANGED << sendLog, outcome >>
    /\ UNCHANGED << conns, client_socket, tree, unlinks, stream, arrived, peerEnd, eof,
                    client_request, first_line, resource, uri >>

\* handle_client_request, lines 102-111: the existence check; 404 when the
\* candidate path is not a regular file.
CheckFile ==
    /\ pc = "isfile"
    /\ LET file_path == PathJoin(WEBROOT, uri) IN
       /\ fsLog' = Append(fsLog, << "isfile", file_path >>)
       /\ IF ~IsFile(tree, file_path)
          THEN Send(Encode(HTTP_404))
          ELSE /\ pc' = "read"
               /\ UNCHANGED << sendLog, outcome >>
    /\ UNCHANGED << conns, client_socket, tree, unlinks, stream, arrived, peerEnd, eof,
                    client_request, first_line, resource, uri >>

\* ReadAndSend without the try of lines 121-128: the exception of the read
\* leaves handle_client_request and is caught by handle_client, which sends
\* nothing
ReadAndSend_Uncaught ==
    /\ pc = "read"
    /\ LET file_path == PathJoin(WEBROOT, uri) IN
       /\ fsLog' = Append(fsLog, << "open", file_path >>)
       /\ IF ~CanRead(tree, file_path)
          THEN /\ pc' = "return"
               /\ outcome' = "error"
               /\ UNCHANGED sendLog
          ELSE Send(OkResponse(uri, get_file_data(tree, uri)))
    /\ UNCHANGED << conns, client_socket, tree, unlinks, stream, arrived, peerEnd, eof,
                    client_request, first_line, resource, uri >>

\* handle_client_request, lines 113-138: read the file; HTTP_500 when the
\* read raises, otherwise the 200 header followed by the file's bytes.
ReadAndSend ==
    /\ pc = "read"
    /\ LET file_path == PathJoin(WEBROOT, uri) IN
       /\ fsLog' = Append(fsLog, << "open", file_path >>)
       /\ IF ~CanRead(tree, file_path)
          THEN Send(Encode(HTTP_500))
          ELSE Send(OkResponse(uri, get_file_data(tree, uri)))
    /\ UNCHANGED << conns, client_socket, tree, unlinks, stream, arrived, peerEnd, eof,
                    client_request, first_line, resource, uri >>

\* Close without the close call of line 238: the socket stays open when
\* the loop goes back to accept
Close_Leak ==
    /\ pc = "return"
    /\ pc' = "accept"
    /\ stream' = << >>
    /\ arrived' = 0
    /\ peerEnd' = "silent"
    /\ eof' = FALSE
    /\ client_request' = << >>
    /\ first_line' = << >>
    /\ resource' = << >>
    /\ uri' = << >>
    /\ sendLog' = << >>
    /\ fsLog' = << >>
    /\ outcome' = "none"
    /\ UNCHANGED << conns, client_socket, tree, unlinks >>

\* main, lines 237-239 and 229: handle_client has returned and its locals
\* are gone; the finally clause closes the client socket and the loop goes
\* back to accept.
Close ==
    /\ pc = "return"
    /\ client_socket' = "closed"
    /\ pc' = "accept"
    /\ stream' = << >>
    /\ arrived' = 0
    /\ peerEnd' = "silent"
    /\ eof' = FALSE
    /\ client_request' = << >>
    /\ first_line' = << >>
    /\ resource' = << >>
    /\ uri' = << >>
    /\ sendLog' = << >>
    /\ fsLog' = << >>
    /\ outcome' = "none"
    /\ UNCHANGED << conns, tree, unlinks >>

\* The environment removes a regular file of the tree while a framed
\* request is being handled (a removal during framing is observed by the
\* handler exactly as one made right after framing).
Unlink ==
    /\ pc \in { "parse", "resolve", "isfile", "read" }
    /\ unlinks < MaxUnlinks
    /\ \E n \in DOMAIN tree :
         /\ tree[n].kind = "file"
         /\ tree' = [m \in DOMAIN tree \ { n } |-> tree[m]]
    /\ unlinks' = unlinks + 1
    /\ UNCHANGED << pc, conns, client_socket, connVars, sendLog, outcome >>

Next ==
    \/ Accept
    \/ AcceptFail
    \/ RecvByte
    \/ RecvEof
    \/ RecvFail
    \/ Framed
    \/ Validate
    \/ Resolve
    \/ CheckFile
    \/ ReadAndSend
    \/ Close
    \/ Unlink

Spec ==
    Init /\ [][Next]_vars

\* The steps of the server itself.  It is a sequential program: whenever
\* one of its steps can be taken it is eventually taken.  No such
\* assumption is made on Accept (a peer may never connect) or Unlink.
ServerStep ==
    \/ RecvByte
    \/ RecvEof
    \/ RecvFail
    \/ Framed
    \/ Validate
    \/ Resolve
    \/ CheckFile
    \/ ReadAndSend
    \/ Close

LiveSpec ==
    Init /\ [][Next]_vars /\ WF_vars(ServerStep)

-----------------------------------------------------------------------------
(* The request line validator on its own: handle_client stands right after *)
(* framing (line 197) with an arbitrary first line, and validates it.      *)

\* longest generated target
MaxTargetLen ==
    3

\* The characters the generated targets are made of
TargetChars ==
    { "/", "a", "%", "?" }

\* The targets of the validator runs: the peers' targets and every string
\* of at most MaxTargetLen characters of TargetChars
ValTargets ==
    Targets \cup UNION { [1..k -> TargetChars] : k \in 0..MaxTargetLen }

\* First fields of the generated lines
ValMethods ==
    { <<"G", "E", "T">>, <<"g", "e", "t">>, <<"G", "e", "t">>, <<"G", "E">>, <<"G", "E", "T", "S">>, <<"P", "O", "S", "T">>, <<>> }

\* Third fields of the generated lines
ValVersions ==
    { <<"H", "T", "T", "P", "/", "1", ".", "1">>, <<"H", "T", "T", "P", "/", "1", ".", "1", "x", "y", "z">>, <<"H", "T", "T", "P", "/", "1", ".", "1", "0">>, <<"H", "T", "T", "P", "/", "1", ".", "0">>, <<"H", "T", "T", "P", "/", "1", ".">>,
      <<"h", "t", "t", "p", "/", "1", ".", "1">>, <<"x", "H", "T", "T", "P", "/", "1", ".", "1">>, <<>> }

\* ' '.join(fields)
RECURSIVE JoinSpaces(_)
JoinSpaces(fields) ==
    IF Len(fields) = 1 THEN fields[1]
    ELSE fields[1] \o <<" ">> \o JoinSpaces(Tail(fields))

\* The first lines of the validator runs: one to four fields separated by
\* single spaces
ValLines ==
    { JoinSpaces(f) :
        f \in { << m >> : m \in ValMethods }
              \cup { << m, t >> : m \in ValMethods, t \in ValTargets }
              \cup { << m, t, v >> : m \in ValMethods, t \in ValTargets, v \in ValVersions }
              \cup { << m, <<"/">>, v, x >> : m \in ValMethods, v \in ValVersions,
                                           x \in { <<>>, <<"x">>, <<"H", "T", "T", "P", "/", "1", ".", "1">> } } }

\* handle_client at line 197 of its first connection: the header block
\* first_line + terminator has been framed
ValInit ==
    /\ pc = "parse"
    /\ conns = 1
    /\ client_socket = "open"
    /\ tree = InitialTree({})
    /\ unlinks = 0
    /\ stream = << >>
    /\ arrived = 0
    /\ peerEnd = "silent"
    /\ eof = FALSE
    /\ first_line \in ValLines
    /\ client_request = first_line \o Terminator
    /\ resource = << >>
    /\ uri = << >>
    /\ sendLog = << >>
    /\ fsLog = << >>
    /\ outcome = "none"

ValNext ==
    Validate

ValSpec ==
    ValInit /\ [][ValNext]_vars

-----------------------------------------------------------------------------
(* The resolver on its own: handle_client stands right after framing with  *)
(* a first line, validates it and resolves the target.                     *)

\* handle_client at line 197 of its first connection, the first line being
\* 'GET <target> HTTP/1.1' for a target of the validator runs, or one of
\* the other lines; the document root holds all the optional files or none
ResInit ==
    /\ pc = "parse"
    /\ conns = 1
    /\ client_socket = "open"
    /\ tree \in { InitialTree({}), InitialTree(OptionalFiles) }
    /\ unlinks = 0
    /\ stream = << >>
    /\ arrived = 0
    /\ peerEnd = "silent"
    /\ eof = FALSE
    /\ first_line \in { RequestLine(t) : t \in ValTargets } \cup OtherLines
    /\ client_request = first_line \o Terminator
    /\ resource = << >>
    /\ uri = << >>
    /\ sendLog = << >>
    /\ fsLog = << >>
    /\ outcome = "none"

ResNext ==
    \/ Validate
    \/ Resolve
    \/ CheckFile
    \/ ReadAndSend

ResSpec ==
    ResInit /\ [][ResNext]_vars

-----------------------------------------------------------------------------
(* The framing loop on its own: the peer's stream contains the terminator  *)
(* and reaches the socket in chunks of any sizes, each arriving before the *)
(* socket's timeout expires.                                               *)

\* The streams of the framing runs: each contains the terminator
FrameStreams ==
    { Encode(<<"G", "E", "T", " ", "/", " ", "H", "T", "T", "P", "/", "1", ".", "1", "\r", "\n", "\r", "\n">>),
      Encode(<<"G", "E", "T", " ", "/", "a", " ", "H", "T", "T", "P", "/", "1", ".", "1", "\r", "\n", "H", "o", "s", "t", ":", " ", "x", "\r", "\n", "\r", "\n">>),
      Encode(<<"G", "E", "T", " ", "/", " ", "H", "T", "T", "P", "/", "1", ".", "1", "\r", "\n", "\r", "\n", "G", "E", "T", " ", "/", "b", " ", "H", "T", "T", "P", "/", "1", ".", "1", "\r", "\n", "\r", "\n">>),
      Encode(<<"\r", "\n", "\r", "\n">>),
      Encode(<<"\r", "\n", "\r", "\n", "\r", "\n">>),
      Encode(<<"a", "\r", "\r", "\n", "\r", "\r", "\n", "\r", "\n", "\r", "\n", "\r", "\n">>),
      Encode(<<"a", "\n", "\r", "\n", "\r", "\n", "\r", "\n", "b">>),
      Encode(<<"G", "E", "T", " ", "/">>) \o << 200 >> \o Encode(<<" ", "H", "T", "T", "P", "/", "1", ".", "1", "\r", "\n", "\r", "\n">>),
      << 195, 169 >> \o Encode(<<"\r", "\n", "\r", "\n">>) }

\* handle_client at line 185 of its first connection: nothing has arrived
FrameInit ==
    /\ pc = "recv"
    /\ conns = 1
    /\ client_socket = "open"
    /\ tree = InitialTree({})
    /\ unlinks = 0
    /\ stream \in FrameStreams
    /\ arrived = 0
    /\ peerEnd = "silent"
    /\ eof = FALSE
    /\ client_request = << >>
    /\ first_line = << >>
    /\ resource = << >>
    /\ uri = << >>
    /\ sendLog = << >>
    /\ fsLog = << >>
    /\ outcome = "none"

\* The network delivers the next chunk of the peer's stream, of any size,
\* into the receive buffer of the socket (recv of line 189 waits for it
\* when the buffer is empty).
Deliver ==
    /\ pc = "recv"
    /\ arrived < Len(stream)
    /\ \E k \in 1..(Len(stream) - arrived) : arrived' = arrived + k
    /\ UNCHANGED << pc, conns, client_socket, tree, unlinks, stream, peerEnd, eof,
                    client_request, first_line, resource, uri, sendLog, fsLog, outcome >>

FrameNext ==
    \/ Deliver
    \/ RecvByte
    \/ Framed

FrameSpec ==
    FrameInit /\ [][FrameNext]_vars

-----------------------------------------------------------------------------
(* Properties *)

\* handle_client has returned after framing a complete header block
FramedAndDone ==
    /\ pc = "return"
    /\ EndsWith(client_request, Terminator)

\* C1: when the first line of a framed request is rejected by
\* validate_http_request, the only send of the connection carries exactly
\* 'HTTP/1.1 400 BAD REQUEST\r\n\r\n' and the resolver has not run (no
\* file system call, no candidate file name).
C1_BadRequestIsExactly400 ==
    (FramedAndDone /\ ~validate_http_request(Split(client_request, <<"\r", "\n">>)[1])[1])
        => /\ sendLog = << Encode(<<"H", "T", "T", "P", "/", "1", ".", "1", " ", "4", "0", "0", " ", "B", "A", "D", " ", "R", "E", "Q", "U", "E", "S", "T", "\r", "\n", "\r", "\n">>) >>
           /\ fsLog = << >>
           /\ uri = << >>

\* C2: a 200 response is sent only for a file that exists inside the
\* document root: whenever the response of a connection starts with the
\* 200 status line, the file that was opened is a regular file below
\* web_root.
C2_ServedFileInsideDocRoot ==
    (FramedAndDone /\ sendLog # << >> /\ StartsWith(sendLog[1], Encode(<<"H", "T", "T", "P", "/", "1", ".", "1", " ", "2", "0", "0", " ", "O", "K", "\r", "\n">>)))
        => \E i \in 1..Len(fsLog) :
             /\ fsLog[i][1] = "open"
             /\ LET n == Lookup(tree, fsLog[i][2]) IN
                /\ n # NoNode
                /\ tree[n].kind = "file"
                /\ Len(n) >= 2
                /\ n[1] = <<"w", "e", "b", "_", "r", "o", "o", "t">>

\* C3: if the peer closes the stream before the terminator has been
\* received, handle_client eventually returns, having sent nothing.
C3_PeerCloseEndsHandler ==
    eof ~> (pc = "return" /\ sendLog = << >>)

\* The order in which handle_client and handle_client_request go through
\* their statements
HandlerRank(p) ==
    CASE p = "recv" -> 1
      [] p = "parse" -> 2
      [] p = "resolve" -> 3
      [] p = "isfile" -> 4
      [] p = "read" -> 5
      [] p = "return" -> 6
      [] OTHER -> 0

\* C4: a connection whose header block was framed gets exactly one send,
\* whichever branch answers it; no connection gets more than one; and
\* handle_client moves through its states in one direction only
\* (recv, parse, resolve, isfile, read, return), never back.
C4_ExactlyOneResponse ==
    /\ [](Len(sendLog) <= 1)
    /\ [](FramedAndDone => Len(sendLog) = 1)
    /\ [][pc \notin { "accept", "return" } => HandlerRank(pc') >= HandlerRank(pc)]_vars

\* C4 witnesses: a framed connection answered by a single send
C4_Witness ==
    /\ FramedAndDone
    /\ Len(sendLog) = 1
    /\ fsLog # << >>

\* C5: when the file served has an extension without entry in
\* CONTENT_TYPES, the response is 200, its Content-Type header carries a
\* media type (type/subtype, the generic fallback) and its Content-Length
\* is the byte length of the file.
C5_UnknownExtensionGetsFallbackType ==
    LET path == PathJoin(WEBROOT, uri)
        lines == Split(sendLog[1], << 13, 10 >>)
        name == Encode(<<"C", "o", "n", "t", "e", "n", "t", "-", "T", "y", "p", "e", ":", " ">>)
    IN (/\ FramedAndDone
        /\ \E i \in 1..Len(fsLog) : fsLog[i] = << "open", path >>
        /\ CanRead(tree, path)
        /\ ~DictHas(CONTENT_TYPES, FileExtension(uri)))
          => /\ Len(sendLog) = 1
             /\ Len(lines) >= 3
             /\ lines[1] = Encode(<<"H", "T", "T", "P", "/", "1", ".", "1", " ", "2", "0", "0", " ", "O", "K">>)
             /\ StartsWith(lines[2], name)
             /\ \E k \in (Len(name) + 2)..(Len(lines[2]) - 1) : lines[2][k] = 47
             /\ lines[3] = Encode(<<"C", "o", "n", "t", "e", "n", "t", "-", "L", "e", "n", "g", "t", "h", ":", " ">>
                                    \o Str(Len(tree[Lookup(tree, path)].data)))

C7_TargetReturnedUnchanged ==
    \A t \in ValTargets :
        (/\ pc # "parse"
         /\ first_line = <<"G", "E", "T", " ">> \o t \o <<" ", "H", "T", "T", "P", "/", "1", ".", "1">>
         /\ \A i \in 1..Len(t) : t[i] # " ")
          => /\ pc = "resolve"
             /\ resource = t
             /\ sendLog = << >>

\* C7 witness: the target '/a%20b?x=1' reached the resolver undecoded
C7_Witness ==
    /\ pc = "resolve"
    /\ first_line = <<"G", "E", "T", " ", "/", "a", "%", "2", "0", "b", "?", "x", "=", "1", " ", "H", "T", "T", "P", "/", "1", ".", "1">>
    /\ resource = <<"/", "a", "%", "2", "0", "b", "?", "x", "=", "1">>

\* C8: target '/forbidden' is answered with exactly
\* 'HTTP/1.1 403 FORBIDDEN\r\n\r\n' and target '/error' with exactly
\* 'HTTP/1.1 500 INTERNAL SERVER ERROR\r\n\r\n', whatever the tree holds and
\* without any file system call.
C8_ForcedStatusRoutes ==
    /\ (pc = "return" /\ resource = <<"/", "f", "o", "r", "b", "i", "d", "d", "e", "n">>)
          => /\ sendLog = << Encode(<<"H", "T", "T", "P", "/", "1", ".", "1", " ", "4", "0", "3", " ", "F", "O", "R", "B", "I", "D", "D", "E", "N", "\r", "\n", "\r", "\n">>) >>
             /\ fsLog = << >>
    /\ (pc = "return" /\ resource = <<"/", "e", "r", "r", "o", "r">>)
          => /\ sendLog = << Encode(<<"H", "T", "T", "P", "/", "1", ".", "1", " ", "5", "0", "0", " ", "I", "N", "T", "E", "R", "N", "A", "L", " ", "S", "E", "R", "V", "E", "R", " ", "E", "R", "R", "O", "R", "\r", "\n", "\r", "\n">>) >>
             /\ fsLog = << >>
    /\ (pc \in { "isfile", "read" }) => resource \notin { <<"/", "f", "o", "r", "b", "i", "d", "d", "e", "n">>, <<"/", "e", "r", "r", "o", "r">> }

\* C8 witness: '/forbidden' answered 403 while web_root/forbidden exists
C8_Witness ==
    /\ pc = "return"
    /\ resource = <<"/", "f", "o", "r", "b", "i", "d", "d", "e", "n">>
    /\ << <<"w", "e", "b", "_", "r", "o", "o", "t">>, <<"f", "o", "r", "b", "i", "d", "d", "e", "n">> >> \in DOMAIN tree
    /\ sendLog = << Encode(<<"H", "T", "T", "P", "/", "1", ".", "1", " ", "4", "0", "3", " ", "F", "O", "R", "B", "I", "D", "D", "E", "N", "\r", "\n", "\r", "\n">>) >>

\* C9: target '/moved', the key of the redirection table, is answered with
\* exactly 'HTTP/1.1 302 MOVED TEMPORARILY\r\nLocation: /\r\n\r\n', without
\* body, whatever the tree holds.
C9_RedirectResponse ==
    (pc = "return" /\ resource = <<"/", "m", "o", "v", "e", "d">>)
        => sendLog = << Encode(<<"H", "T", "T", "P", "/", "1", ".", "1", " ", "3", "0", "2", " ", "M", "O", "V", "E", "D", " ", "T", "E", "M", "P", "O", "R", "A", "R", "I", "L", "Y", "\r", "\n", "L", "o", "c", "a", "t", "i", "o", "n", ":", " ", "/", "\r", "\n", "\r", "\n">>) >>

\* C9 witness: '/moved' answered 302 while web_root/moved exists
C9_Witness ==
    /\ pc = "return"
    /\ resource = <<"/", "m", "o", "v", "e", "d">>
    /\ << <<"w", "e", "b", "_", "r", "o", "o", "t">>, <<"m", "o", "v", "e", "d">> >> \in DOMAIN tree
    /\ Len(sendLog) = 1

\* C10: when the target is neither a forced status route nor a
\* redirection key and the candidate path under web_root is not an existing
\* regular file at the existence check, the check is followed by exactly
\* 'HTTP/1.1 404 NOT FOUND\r\n\r\n' and no file is opened.
C10_MissingFileIs404 ==
    [][(/\ pc = "isfile"
        /\ pc' # "isfile"
        /\ resource \notin { <<"/", "f", "o", "r", "b", "i", "d", "d", "e", "n">>, <<"/", "e", "r", "r", "o", "r">>, <<"/", "m", "o", "v", "e", "d">> }
        /\ ~IsFile(tree, PathJoin(WEBROOT, uri)))
          => /\ pc' = "return"
             /\ sendLog' = << Encode(<<"H", "T", "T", "P", "/", "1", ".", "1", " ", "4", "0", "4", " ", "N", "O", "T", " ", "F", "O", "U", "N", "D", "\r", "\n", "\r", "\n">>) >>
             /\ \A i \in 1..Len(fsLog') : fsLog'[i][1] # "open"]_vars

\* C10 witness: the directory web_root/img asked for as '/img', answered 404
C10_Witness ==
    /\ pc = "return"
    /\ resource = <<"/", "i", "m", "g">>
    /\ sendLog = << Encode(<<"H", "T", "T", "P", "/", "1", ".", "1", " ", "4", "0", "4", " ", "N", "O", "T", " ", "F", "O", "U", "N", "D", "\r", "\n", "\r", "\n">>) >>
    /\ fsLog = << << "isfile", <<"w", "e", "b", "_", "r", "o", "o", "t", "/", "i", "m", "g">> >> >>

\* C11: no outcome of the handling of one connection ends the accept loop.
\* main ends only when accept itself fails; once handle_client has returned,
\* whatever the outcome (response sent, timeout, peer reset, failed send,
\* exception caught in the handler), main can take its next step, and that
\* step leads back to accept.
C11_LoopSurvivesConnectionFailures ==
    /\ [][pc' = "stopped" => pc = "accept"]_vars
    /\ [][pc = "return" => pc' = "accept"]_vars
    /\ [](pc = "return" => (outcome \in { "sent", "timeout", "error" } /\ ENABLED Close))

\* C11 witness: a second connection is being served although the handling
\* of the first one has ended, and it ends with a failed send
C11_Witness ==
    /\ conns = 2
    /\ pc = "return"
    /\ outcome = "error"
    /\ sendLog # << >>

\* C12: an accepted connection is closed as soon as handle_client has
\* returned, whatever the outcome, and before the next accept: accept is
\* only called while no accepted socket is open, so at most one is open at
\* any time; and once a header block has been framed nothing more is read
\* from the connection.
C12_OneRequestThenClose ==
    /\ [][pc = "return" => client_socket' = "closed"]_vars
    /\ [][conns' # conns => (client_socket # "open" /\ conns' = conns + 1)]_vars
    /\ [][(client_socket = "open" /\ EndsWith(client_request, Terminator))
            => (stream' = stream \/ client_socket' = "closed")]_vars
    /\ [][pc' = "stopped" => client_socket # "open"]_vars

\* C12 witness: the second connection has been answered and bytes of a
\* further request of the peer are left unread
C12_Witness ==
    /\ conns = 2
    /\ pc = "return"
    /\ outcome = "sent"
    /\ stream # << >>

\* C13: the framer enforces a maximum size: the accumulated request never
\* holds more than MaxRequestSize characters, whatever the peer sends.
C13_RequestBufferBounded ==
    Len(client_request) <= MaxRequestSize

C15_RoutesMatchOriginalTarget ==
    LET routes == { <<"/", "f", "o", "r", "b", "i", "d", "d", "e", "n">>, <<"/", "e", "r", "r", "o", "r">>, <<"/", "m", "o", "v", "e", "d">> } IN
    (FramedAndDone /\ validate_http_request(first_line)[1])
        => IF resource \in routes
           THEN fsLog = << >>
           ELSE /\ fsLog # << >>
                /\ fsLog[1][1] = "isfile"
                /\ Len(sendLog) = 1
                /\ sendLog[1] # Encode(<<"H", "T", "T", "P", "/", "1", ".", "1", " ", "4", "0", "3", " ", "F", "O", "R", "B", "I", "D", "D", "E", "N", "\r", "\n", "\r", "\n">>)
                /\ ~StartsWith(sendLog[1], Encode(<<"H", "T", "T", "P", "/", "1", ".", "1", " ", "3", "0", "2">>))
                /\ sendLog[1] = Encode(<<"H", "T", "T", "P", "/", "1", ".", "1", " ", "5", "0", "0", " ", "I", "N", "T", "E", "R", "N", "A", "L", " ", "S", "E", "R", "V", "E", "R", " ", "E", "R", "R", "O", "R", "\r", "\n", "\r", "\n">>)
                     => \E i \in 1..Len(fsLog) : fsLog[i][1] = "open"

\* C15 witness: '//forbidden' is answered with the file web_root/forbidden
C15_Witness ==
    /\ pc = "return"
    /\ resource = <<"/", "/", "f", "o", "r", "b", "i", "d", "d", "e", "n">>
    /\ << <<"w", "e", "b", "_", "r", "o", "o", "t">>, <<"f", "o", "r", "b", "i", "d", "d", "e", "n">> >> \in DOMAIN tree
    /\ sendLog # << >>
    /\ StartsWith(sendLog[1], Encode(<<"H", "T", "T", "P", "/", "1", ".", "1", " ", "2", "0", "0", " ", "O", "K", "\r", "\n">>))

\* C16: when the candidate passed the existence check and the read fails
\* (file not readable, or removed since the check), the handler makes one
\* send, of exactly 'HTTP/1.1 500 INTERNAL SERVER ERROR\r\n\r\n': no 200
\* line, no body, and the exception of the read does not leave
\* handle_client_request unanswered.
C16_ReadFailureIs500 ==
    [][(/\ pc = "read"
        /\ pc' # "read"
        /\ LET n == Lookup(tree, <<"w", "e", "b", "_", "r", "o", "o", "t", "/">> \o uri) IN
             \/ n = NoNode
             \/ tree[n].kind # "file"
             \/ ~tree[n].readable)
          => /\ pc' = "return"
             /\ sendLog' = << Encode(<<"H", "T", "T", "P", "/", "1", ".", "1", " ", "5", "0", "0", " ", "I", "N", "T", "E", "R", "N", "A", "L", " ", "S", "E", "R", "V", "E", "R", " ", "E", "R", "R", "O", "R", "\r", "\n", "\r", "\n">>) >>]_vars

\* C16 witness: web_root/index.html was removed between the existence
\* check and the read, and '/index.html' is answered 500
C16_Witness ==
    /\ pc = "return"
    /\ resource = <<"/", "i", "n", "d", "e", "x", ".", "h", "t", "m", "l">>
    /\ << <<"w", "e", "b", "_", "r", "o", "o", "t">>, <<"i", "n", "d", "e", "x", ".", "h", "t", "m", "l">> >> \notin DOMAIN tree
    /\ fsLog = << << "isfile", <<"w", "e", "b", "_", "r", "o", "o", "t", "/", "i", "n", "d", "e", "x", ".", "h", "t", "m", "l">> >>, << "open", <<"w", "e", "b", "_", "r", "o", "o", "t", "/", "i", "n", "d", "e", "x", ".", "h", "t", "m", "l">> >> >>
    /\ sendLog = << Encode(<<"H", "T", "T", "P", "/", "1", ".", "1", " ", "5", "0", "0", " ", "I", "N", "T", "E", "R", "N", "A", "L", " ", "S", "E", "R", "V", "E", "R", " ", "E", "R", "R", "O", "R", "\r", "\n", "\r", "\n">>) >>

\* C18: nothing is sent before the terminator has been received; in
\* particular when recv times out during framing, handle_client returns
\* with no send made, and the next step of main closes the socket.
C18_NothingSentBeforeFraming ==
    /\ [](~EndsWith(client_request, Terminator) => sendLog = << >>)
    /\ []((pc = "return" /\ outcome = "timeout" /\ ~EndsWith(client_request, Terminator))
             => (sendLog = << >> /\ client_socket = "open"))
    /\ [][(pc = "return" /\ ~EndsWith(client_request, Terminator))
            => (client_socket' = "closed" /\ sendLog = << >>)]_vars

\* C18 witness: recv timed out after part of a request line; nothing sent
C18_Witness ==
    /\ pc = "return"
    /\ outcome = "timeout"
    /\ client_request = <<"G", "E", "T", " ", "/", " ", "H", "T">>
    /\ sendLog = << >>

\* C17: for every stream that contains the terminator, however it is cut
\* into chunks on its way, the framing loop ends with the shortest prefix
\* of the stream that ends with '\r\n\r\n' in the buffer (it does not end
\* in any other way), and the bytes after that prefix are left unread.
C17_FramerYieldsShortestPrefix ==
    /\ pc \in { "recv", "parse" }
    /\ pc = "parse"
         => /\ Encode(client_request) \o stream \in FrameStreams
            /\ EndsWith(client_request, <<"\r", "\n", "\r", "\n">>)
            /\ \A k \in 0..(Len(client_request) - 1) :
                  ~EndsWith(SubSeq(client_request, 1, k), <<"\r", "\n", "\r", "\n">>)

\* C19: validate_http_request accepts a line exactly when, split on single
\* spaces, it has at least 3 fields, the first is 'GET' (case-sensitive)
\* and the third begins with 'HTTP/1.1'; the target it returns on rejection
\* is '' (and handle_client then sends the 400).
C19_ValidatorAcceptance ==
    LET f == Split(first_line, <<" ">>)
        ok == /\ Len(f) >= 3
              /\ f[1] = <<"G", "E", "T">>
              /\ Len(f[3]) >= 8
              /\ SubSeq(f[3], 1, 8) = <<"H", "T", "T", "P", "/", "1", ".", "1">>
    IN pc # "parse"
         => /\ (pc = "resolve") <=> ok
            /\ ok => resource = f[2]
            /\ ~ok => (pc = "return" /\ resource = << >> /\ Len(sendLog) = 1)

\* C19 witness: 'GET / HTTP/1.1xyz' is accepted through the prefix test
C19_Witness ==
    /\ pc = "resolve"
    /\ first_line = <<"G", "E", "T", " ", "/", " ", "H", "T", "T", "P", "/", "1", ".", "1", "x", "y", "z">>
    /\ resource = <<"/">>

\* C20: a byte of value 0x80 or more received before the terminator ends
\* the framing loop with an exception that handle_client swallows: the
\* buffer is left as it was, nothing is sent, and the socket is closed next.
\* So whenever something is sent, the request consists of ASCII characters
\* only and ends with the terminator.
C20_NonAsciiByteGetsNoResponse ==
    /\ [][(/\ pc = "recv"
           /\ stream # << >>
           /\ stream' # stream
           /\ Head(stream) >= 128)
             => /\ pc' = "return"
                /\ outcome' = "error"
                /\ client_request' = client_request
                /\ sendLog' = << >>]_vars
    /\ [][(pc = "return" /\ outcome = "error" /\ ~EndsWith(client_request, Terminator))
             => (sendLog = << >> /\ client_socket' = "closed")]_vars
    /\ [](sendLog # << >>
             => /\ EndsWith(client_request, Terminator)
                /\ \A i \in 1..Len(client_request) :
                      \E c \in 1..128 : AsciiTable[c] = client_request[i])

\* C20 witness: the byte 0xC8 after 'GET /' ended the handler; the rest of
\* the stream is unread and nothing was sent
C20_Witness ==
    /\ pc = "return"
    /\ outcome = "error"
    /\ client_request = <<"G", "E", "T", " ", "/">>
    /\ stream = Encode(<<" ", "H", "T", "T", "P", "/", "1", ".", "1", "\r", "\n", "\r", "\n">>)
    /\ sendLog = << >>

=============================================================================
